---- MODULE Spec2Model ----
(***************************************************************************)
(* Model of src/dbus_api.rs: the DBusApi call dispatcher (bounded retry on *)
(* designated error names, fixed one-second backoff), its property read    *)
(* and the VariantTo coercions.                                            *)
(*                                                                         *)
(* Conventions.  An Option<T> is a sequence of length 0 (None) or 1        *)
(* (Some(x)).  A formatted message is the sequence of the pieces that      *)
(* format! concatenates, so that "the message contains the path" is        *)
(* membership of the path among the pieces.  Numbers are TLC integers      *)
(* (below 2^31); the i32 arithmetic of the timeout is done on 16-bit limbs *)
(* so that it wraps exactly as the machine does.                           *)
(***************************************************************************)
EXTENDS Integers, Sequences, FiniteSets, TLC

(* ------------------------------------------------------------------ *)
(* Program constants                                                    *)
(* ------------------------------------------------------------------ *)
DEFAULT_TIMEOUT == 15
RETRIES_ALLOWED == 10
BackoffSecs == 1
MsPerSec == 1000
TwoPow16 == 65536
TwoPow15 == 32768
TwoPow8 == 256
I32Max == 2147483647

(* ------------------------------------------------------------------ *)
(* Bounds of the model                                                  *)
(* ------------------------------------------------------------------ *)
MaxCalls == 2
MaxLen == 3

(* ------------------------------------------------------------------ *)
(* Input universes                                                      *)
(* ------------------------------------------------------------------ *)
NoReplyName == "org.freedesktop.DBus.Error.NoReply"
ServiceUnknownName == "org.freedesktop.DBus.Error.ServiceUnknown"
AccessDeniedName == "org.freedesktop.DBus.Error.AccessDenied"
ErrorNames == {NoReplyName, ServiceUnknownName, AccessDeniedName}

\* the retry-name lists a dispatcher may be constructed with
RetryNameLists == {<<>>, <<NoReplyName>>, <<NoReplyName, ServiceUnknownName>>}

\* the method_timeout argument of DBusApi::new (seconds): absent, small,
\* and two values whose millisecond count does not fit an i32
TimeoutArgs == {<<>>, <<1>>, <<2147484>>, <<4294968>>}

BaseName == "org.example.Service"
GoodPath == "/test"
GoodInterface == "org.example.Iface"
GoodMethod == "Ping"
MalformedPaths == {"test"}
MalformedInterfaces == {"Iface"}
MalformedMethods == {"Pi.ng"}

\* the call targets (path, interface, method) callers use
Targets ==
  { <<GoodPath, GoodInterface, GoodMethod>> }
  \cup { <<p, GoodInterface, GoodMethod>> : p \in MalformedPaths }
  \cup { <<GoodPath, i, GoodMethod>> : i \in MalformedInterfaces }
  \cup { <<GoodPath, GoodInterface, m>> : m \in MalformedMethods }

ArgLists == {<<>>, <<"arg">>}

Replies == {"reply1", "reply2"}
ErrorDetails == {<<>>, <<"Connection timed out">>}

\* what the transport can return for one blocking send
TransportErrors ==
  { [name |-> n, message |-> d] :
      n \in {<<>>} \cup { <<e>> : e \in ErrorNames }, d \in ErrorDetails }
NoError == [name |-> <<>>, message |-> <<>>]
TransportResults ==
  { [ok |-> TRUE, reply |-> r, err |-> NoError] : r \in Replies }
  \cup { [ok |-> FALSE, reply |-> "", err |-> e] : e \in TransportErrors }

\* a signed 64-bit integer v as its two 32-bit halves: h is v >> 32 and
\* w is `v as i32` (the low 32 bits read as a signed number), so that
\* v = h * 2^32 + (w mod 2^32)
I64(h, w) == [h |-> h, w |-> w]
\* the i64 of a number that fits 32 bits (sign extension)
I64Of(x) == I64(IF x < 0 THEN -1 ELSE 0, x)

\* wire values: a string, an integer, or an array of strings and integers
StrV(x) == [kind |-> "str", s |-> x, i |-> I64Of(0), elems |-> <<>>]
IntV(v) == [kind |-> "int", s |-> "", i |-> v, elems |-> <<>>]
StrE(x) == [kind |-> "str", s |-> x, i |-> I64Of(0)]
IntE(v) == [kind |-> "int", s |-> "", i |-> v]
ArrayV(es) == [kind |-> "array", s |-> "", i |-> I64Of(0), elems |-> es]

\* the integers put on the wire: 0, 7, -1, 2^32 - 1, 2^32, 2^32 + 5,
\* -2^32 + 7
WireIntegers ==
  { I64Of(0), I64Of(7), I64Of(-1), I64(0, -1), I64(1, 0), I64(1, 5), I64(-1, 7) }

\* the elements arrays are made of
ElemChoices == { StrE("a"), StrE("b"), IntE(I64Of(3)), IntE(I64Of(300)) }

\* all arrays of at most n elements
ArraysUpTo(n) ==
  UNION { [1..k -> ElemChoices] : k \in 0..n }

Variants ==
  { StrV("a") }
  \cup { IntV(v) : v \in WireIntegers }
  \cup { ArrayV(es) : es \in ArraysUpTo(MaxLen) }
  \cup { ArrayV(<<StrE("a"), StrE("b"), StrE("c")>>),
         ArrayV(<<IntE(I64Of(-1)), IntE(I64(1, 256))>>) }

\* the target types T of property<T>
TargetTypes == {"String", "i64", "u32", "bool", "Vec<String>", "Vec<u8>"}

PropertyNames == {"State"}
PropertyPaths == {GoodPath} \cup MalformedPaths

\* what the transport can return for one property read
NoVariant == StrV("")
PropertyResults ==
  { [ok |-> TRUE, variant |-> v, err |-> NoError] : v \in Variants }
  \cup { [ok |-> FALSE, variant |-> NoVariant, err |-> e] : e \in TransportErrors }

(* ------------------------------------------------------------------ *)
(* Option / Result values                                               *)
(* ------------------------------------------------------------------ *)
\* a typed value produced by variant_to: one field per target type (u is a
\* u32 as its two 16-bit limbs, low limb first)
NoVal ==
  [s |-> "", n |-> I64Of(0), b |-> FALSE, u |-> <<>>, strs |-> <<>>, ints |-> <<>>]

Ok(reply) == [tag |-> "Ok", reply |-> reply, val |-> NoVal, err |-> <<>>]
OkVal(v) == [tag |-> "Ok", reply |-> "", val |-> v, err |-> <<>>]
Err(message) == [tag |-> "Err", reply |-> "", val |-> NoVal, err |-> message]
NoResult == [tag |-> "None", reply |-> "", val |-> NoVal, err |-> <<>>]

(* ------------------------------------------------------------------ *)
(* Timeout arithmetic: self.method_timeout as i32 * 1000                *)
(* ------------------------------------------------------------------ *)
\* the signed 32-bit value of two 16-bit limbs (two's complement)
FromLimbs(lo, hi) ==
  IF hi >= TwoPow15 THEN (hi - TwoPow16) * TwoPow16 + lo
                    ELSE hi * TwoPow16 + lo

\* `x as i32`: keep the low 32 bits, read them as a signed number
AsI32(x) == FromLimbs(x % TwoPow16, (x \div TwoPow16) % TwoPow16)

\* does s * 1000 leave the i32 range (debug builds panic there)
MulOverflows(s) ==
  \/ s > I32Max \div MsPerSec
  \/ s < -(I32Max \div MsPerSec)

\* s * 1000 in wrapping i32 arithmetic (release builds)
WrappingMul(s) ==
  LET lo == s % TwoPow16
      hi == (s \div TwoPow16) % TwoPow16
      p0 == lo * MsPerSec
      p1 == hi * MsPerSec + (p0 \div TwoPow16)
  IN  FromLimbs(p0 % TwoPow16, p1 % TwoPow16)

\* the expression `self.method_timeout as i32 * 1000` panics
TimeoutPanics(mt, checks) == checks /\ MulOverflows(AsI32(mt))

\* variant of TimeoutMs that doubles the seconds
TimeoutMs_Doubled(mt) == WrappingMul(AsI32(mt + mt))

\* the value the expression hands to the transport when it does not panic
TimeoutMs(mt) == WrappingMul(AsI32(mt))

\* the longest a blocking send given `ms` can last, in whole seconds
MaxBlockSecs(ms) ==
  IF ms <= 0 THEN 0
  ELSE (ms \div MsPerSec) + (IF ms % MsPerSec = 0 THEN 0 ELSE 1)

(* ------------------------------------------------------------------ *)
(* DBusApi::new                                                         *)
(* ------------------------------------------------------------------ *)
UnwrapOr(opt, default) == IF opt = <<>> THEN default ELSE opt[1]

new(b, names, timeout) ==
  [ base |-> b,
    method_retry_error_names |-> names,
    method_timeout |-> UnwrapOr(timeout, DEFAULT_TIMEOUT) ]

(* ------------------------------------------------------------------ *)
(* Message::new_method_call (the bus library)                           *)
(* ------------------------------------------------------------------ *)
\* the details the library's Err carries; the code passes them on unread
BuildErrorDetails ==
  { <<"D-Bus error: dbus_message_new_method_call failed">>,
    <<"Invalid path">> }

BuildOk == [tag |-> "Ok", details |-> <<>>]
BuildPanic == [tag |-> "Panic", details |-> <<>>]
\* what one request to build a message can come to: the message,
\* Err(details), or a panic inside the library
BuildOutcomes ==
  {BuildOk, BuildPanic}
  \cup { [tag |-> "Err", details |-> d] : d \in BuildErrorDetails }

\* the path, interface or method is not a valid bus name
MalformedTarget(p, i, m) ==
  p \in MalformedPaths \/ i \in MalformedInterfaces \/ m \in MalformedMethods

\* the outcomes the library can produce for a target. The library is not
\* part of the source: its Result type lets it return Err for any target
\* and on any iteration; a malformed target never yields a message, and
\* its conversion to Path, Interface or Member may panic instead of
\* returning Err; a well-formed target never panics.
new_method_call(b, p, i, m) ==
  IF MalformedTarget(p, i, m)
    THEN BuildOutcomes \ {BuildOk}
    ELSE BuildOutcomes \ {BuildPanic}

(* ------------------------------------------------------------------ *)
(* Error classification and formatting                                  *)
(* ------------------------------------------------------------------ *)
\* variant of get_error_message without the default text
get_error_message_NoDefault(err) ==
  IF err.message # <<>> THEN <<err.message[1]>> ELSE <<"">>

\* get_error_message
get_error_message(err) ==
  IF err.message # <<>> THEN <<err.message[1]>>
                        ELSE <<"Undefined error message">>

\* variant of ShouldRetry that looks at the first configured name only
ShouldRetry_FirstOnly(names, err) ==
  Len(names) >= 1 /\ err.name = <<names[1]>>

\* the for loop of send_message_checked: some configured name equals the
\* error's name
ShouldRetry(names, err) ==
  \E k \in 1..Len(names) : err.name = <<names[k]>>

\* variant of send_message_checked that takes a reply for "no result yet"
send_message_checked_ReplyLost(names, res) ==
  IF res.ok \/ ShouldRetry(names, res.err) THEN NoResult
  ELSE Err(get_error_message(res.err))

\* send_message_checked, given what the transport returned
send_message_checked(names, res) ==
  IF res.ok THEN Ok(res.reply)
  ELSE IF ShouldRetry(names, res.err) THEN NoResult
  ELSE Err(get_error_message(res.err))

\* variant of format_call_error that leaves the path out
format_call_error_NoPath(i, m, p, error) ==
  <<"D-Bus '", i, "'::'", m, "' method call failed: ">> \o error

\* the closure of call_with_args
format_call_error(i, m, p, error) ==
  <<"D-Bus '", i, "'::'", m, "' method call failed on '", p, "': ">> \o error

ExhaustedMessage ==
  <<"method call failed after ", ToString(RETRIES_ALLOWED), " retries">>

\* variants of RetriesExhausted that stop one retry late, one retry early
RetriesExhausted_Late(r) == r = RETRIES_ALLOWED + 1
RetriesExhausted_Early(r) == r = RETRIES_ALLOWED - 1

\* the test that ends the loop of call_with_args_retry
RetriesExhausted(r) == r = RETRIES_ALLOWED

(* ------------------------------------------------------------------ *)
(* VariantTo<T>                                                         *)
(* ------------------------------------------------------------------ *)
\* RefArg::as_str, as_i64, as_iter of the bus library
as_str(v) == IF v.kind = "str" THEN <<v.s>> ELSE <<>>
as_i64(v) == IF v.kind = "int" THEN <<v.i>> ELSE <<>>
as_iter(v) == IF v.kind = "array" THEN <<v.elems>> ELSE <<>>

\* variant of AsU32 that saturates at the ends of the u32 range
AsU32_Saturating(v) ==
  IF v.h > 0 \/ (v.h = 0 /\ v.w < 0) THEN <<TwoPow16 - 1, TwoPow16 - 1>>
  ELSE IF v.h < 0 THEN <<0, 0>>
  ELSE <<v.w % TwoPow16, (v.w \div TwoPow16) % TwoPow16>>

\* `v as u32`: the low 32 bits of the i64 v, as two 16-bit limbs
AsU32(v) == <<v.w % TwoPow16, (v.w \div TwoPow16) % TwoPow16>>
\* `v as u8`: the low 8 bits of the i64 v
AsU8(v) == v.w % TwoPow8
\* variant of IsZero with the usual polarity of a boolean
IsZero_NonZero(v) == ~(v.h = 0 /\ v.w = 0)

\* `v == 0` on an i64
IsZero(v) == v.h = 0 /\ v.w = 0

variant_to_String(value) ==
  IF as_str(value) # <<>> THEN <<[NoVal EXCEPT !.s = as_str(value)[1]]>> ELSE <<>>

variant_to_i64(value) ==
  IF as_i64(value) # <<>> THEN <<[NoVal EXCEPT !.n = as_i64(value)[1]]>> ELSE <<>>

variant_to_u32(value) ==
  IF as_i64(value) # <<>>
    THEN <<[NoVal EXCEPT !.u = AsU32(as_i64(value)[1])]>> ELSE <<>>

variant_to_bool(value) ==
  IF as_i64(value) # <<>>
    THEN <<[NoVal EXCEPT !.b = IsZero(as_i64(value)[1])]>> ELSE <<>>

\* variant of CollectStrings that returns the strings found before the
\* first element that is not one
CollectStrings_Partial(list, k, acc) ==
  LET bad == { j \in k..Len(list) : as_str(list[j]) = <<>> }
      n == IF bad = {} THEN Len(list)
           ELSE (CHOOSE j \in bad : \A i \in bad : j <= i) - 1
  IN  <<acc \o [j \in 1..(n - k + 1) |-> as_str(list[k + j - 1])[1]]>>

\* the for loop of VariantTo<Vec<String>>: push each string, give up at
\* the first element that is not one
RECURSIVE CollectStrings(_, _, _)
CollectStrings(list, k, acc) ==
  IF k > Len(list) THEN <<acc>>
  ELSE IF as_str(list[k]) # <<>>
    THEN CollectStrings(list, k + 1, Append(acc, as_str(list[k])[1]))
    ELSE <<>>

\* the for loop of VariantTo<Vec<u8>>
RECURSIVE CollectBytes(_, _, _)
CollectBytes(list, k, acc) ==
  IF k > Len(list) THEN <<acc>>
  ELSE IF as_i64(list[k]) # <<>>
    THEN CollectBytes(list, k + 1, Append(acc, AsU8(as_i64(list[k])[1])))
    ELSE <<>>

variant_to_VecString(value) ==
  IF as_iter(value) # <<>>
    THEN LET r == CollectStrings(as_iter(value)[1], 1, <<>>)
         IN  IF r # <<>> THEN <<[NoVal EXCEPT !.strs = r[1]]>> ELSE <<>>
    ELSE <<>>

variant_to_VecU8(value) ==
  IF as_iter(value) # <<>>
    THEN LET r == CollectBytes(as_iter(value)[1], 1, <<>>)
         IN  IF r # <<>> THEN <<[NoVal EXCEPT !.ints = r[1]]>> ELSE <<>>
    ELSE <<>>

\* DBusApi::variant_to, resolved on the requested type T
variant_to(T, value) ==
  CASE T = "String" -> variant_to_String(value)
    [] T = "i64" -> variant_to_i64(value)
    [] T = "u32" -> variant_to_u32(value)
    [] T = "bool" -> variant_to_bool(value)
    [] T = "Vec<String>" -> variant_to_VecString(value)
    [] T = "Vec<u8>" -> variant_to_VecU8(value)

\* the closure property_error of property
format_property_error(i, n, p, details) ==
  <<"D-Bus get '", i, "'::'", n, "' property failed on '", p, "': ", details>>

\* variant of property_details that never passes the remote detail on
property_details_Generic(err) == "no details"

\* the Err arm of property: the remote detail when present
property_details(err) ==
  IF err.message # <<>> THEN err.message[1] ELSE "no details"

\* variant of property_retries that consults the retry names as calls do
property_retries_ByName(names, err) == ShouldRetry(names, err)

\* property has no retry loop: the Err arm of its match returns at once and
\* never looks at the error's name
property_retries(names, err) == FALSE

\* Path::from(&str) of the bus library panics on a malformed object path
PathFromPanics(p) == p \in MalformedPaths

\* variant of NextRetries that counts every retry twice
NextRetries_Twice(r) == r + 2

\* retries += 1
NextRetries(r) == r + 1

\* the destination, target and arguments of the message built by
\* create_and_send_message (append_ref only when args is not empty)
BuildMessage(b, p, i, m, a, ms) ==
  [ destination |-> b, path |-> p, interface |-> i, member |-> m,
    args |-> IF a # <<>> THEN a ELSE <<>>, timeout |-> ms ]

\* variant of BuildFailure that asks for a retry
BuildFailure_Retry(details) == NoResult

\* create_and_send_message when the message cannot be built
BuildFailure(details) == Err(details)

(* ------------------------------------------------------------------ *)
(* State                                                                *)
(* ------------------------------------------------------------------ *)
VARIABLES
  base,                      \* DBusApi.base
  method_retry_error_names,  \* DBusApi.method_retry_error_names
  method_timeout,            \* DBusApi.method_timeout (seconds)
  overflow_checks,           \* the build panics on integer overflow
  pc,                        \* where the calling thread is
  op,                        \* the public operation in progress or last run
  path, interface, method, args,   \* arguments of that operation
  name, want,                \* property name and target type T of property<T>
  retries,                   \* local counter of call_with_args_retry
  result,                    \* what the operation returned
  in_flight,                 \* the message blocked on, <<>> when none
  log,                       \* diagnostics emitted by the operation
  attempts,                  \* sends handed to the transport by this call
  pauses,                    \* one-second sleeps of this call
  elapsed,                   \* seconds this call spent blocked or asleep
  slept,                     \* seconds this call spent asleep
  nfail,                     \* sends of this call that failed with a retry name
  last_res,                  \* what the transport returned last, <<>> if nothing
  sent_timeouts,             \* every timeout ever handed to the transport
  ncalls,                    \* operations started on this dispatcher
  last_build,                \* what the last message build of this call
                             \* came to, <<>> if nothing was built
  peer                       \* a call made by another thread on the same
                             \* dispatcher: its own locals and position

cfg == <<base, method_retry_error_names, method_timeout, overflow_checks>>
target == <<op, path, interface, method, args, name, want>>
vars == <<base, method_retry_error_names, method_timeout, overflow_checks,
          pc, op, path, interface, method, args, name, want, retries, result,
          in_flight,
          log, attempts, pauses, elapsed, slept, nfail, last_res,
          sent_timeouts, ncalls, last_build, peer>>
\* the locals and position of the calling thread
caller == <<pc, retries, result, in_flight, log, attempts, pauses, elapsed,
            slept, nfail, last_res, ncalls, last_build>>

\* variant of InitialRetries that starts from the counter last written
InitialRetries_Stale == retries

\* let mut retries = 0
InitialRetries == 0

EmptyLog == [debug |-> 0, warn |-> <<>>, error |-> <<>>]
LogDebug(l) == [l EXCEPT !.debug = @ + 1]
LogWarn(l, m) == [l EXCEPT !.warn = Append(@, m)]
\* variant of LogError that emits nothing
LogError_Dropped(l, m) == l

LogError(l, m) == [l EXCEPT !.error = Append(@, m)]

\* the error's name is one of the dispatcher's configured retry names
InRetrySet(err) ==
  \E k \in DOMAIN method_retry_error_names :
     err.name = <<method_retry_error_names[k]>>

\* the other thread before its first call
PeerIdle ==
  [pc |-> "idle", path |-> "", interface |-> "", method |-> "", args |-> <<>>,
   retries |-> 0, result |-> NoResult, in_flight |-> <<>>, log |-> EmptyLog,
   attempts |-> 0, pauses |-> 0, nfail |-> 0, last_res |-> <<>>, ncalls |-> 0]

Init ==
  /\ \E names \in RetryNameLists, t \in TimeoutArgs :
       LET d == new(BaseName, names, t) IN
         /\ base = d.base
         /\ method_retry_error_names = d.method_retry_error_names
         /\ method_timeout = d.method_timeout
  /\ overflow_checks \in BOOLEAN
  /\ pc = "idle"
  /\ op = "none"
  /\ path = "" /\ interface = "" /\ method = "" /\ args = <<>>
  /\ name = "" /\ want = ""
  /\ retries = 0
  /\ result = NoResult
  /\ in_flight = <<>>
  /\ log = EmptyLog
  /\ attempts = 0 /\ pauses = 0 /\ elapsed = 0 /\ slept = 0 /\ nfail = 0
  /\ last_res = <<>>
  /\ sent_timeouts = {}
  /\ ncalls = 0
  /\ last_build = <<>>
  /\ peer = PeerIdle

(* ------------------------------------------------------------------ *)
(* call / call_with_args                                                *)
(* ------------------------------------------------------------------ *)
\* call_with_args is entered: call_with_args_retry sets retries to 0
call_with_args(t, a) ==
  /\ pc \in {"idle", "done"}
  /\ ncalls < MaxCalls
  /\ ncalls' = ncalls + 1
  /\ op' = "call"
  /\ path' = t[1] /\ interface' = t[2] /\ method' = t[3] /\ args' = a
  /\ name' = "" /\ want' = ""
  /\ retries' = InitialRetries
  /\ result' = NoResult
  /\ log' = EmptyLog
  /\ attempts' = 0 /\ pauses' = 0 /\ elapsed' = 0 /\ slept' = 0 /\ nfail' = 0
  /\ last_res' = <<>>
  /\ last_build' = <<>>
  /\ pc' = "loop"
  /\ UNCHANGED <<cfg, peer, in_flight, sent_timeouts>>

\* call(path, interface, method) is call_with_args with no arguments
call(t) == call_with_args(t, <<>>)

\* the rest of one iteration of the loop of call_with_args_retry once
\* create_and_send_message has returned r (l is the log so far), and the
\* map_err of call_with_args when the loop returns
Continue(r, l) ==
  IF r.tag = "Ok" THEN
    /\ result' = r
    /\ pc' = "done"
    /\ retries' = retries
    /\ log' = l
  ELSE IF r.tag = "Err" THEN
    LET message == format_call_error(interface, method, path, r.err) IN
    /\ result' = Err(message)
    /\ pc' = "done"
    /\ retries' = retries
    /\ log' = LogError(l, message)
  ELSE
    LET n == NextRetries(retries) IN
    /\ retries' = n
    /\ IF RetriesExhausted(n)
         THEN LET message ==
                    format_call_error(interface, method, path, ExhaustedMessage)
              IN /\ result' = Err(message)
                 /\ pc' = "done"
                 /\ log' = LogError(l, message)
         ELSE /\ result' = result
              /\ pc' = "sleep"
              /\ log' = LogDebug(l)

\* top of the loop: create_and_send_message builds the message and, when
\* it could be built, send_message_checked hands it to the transport and
\* blocks
create_and_send_message(built) ==
  /\ pc = "loop"
  /\ built \in new_method_call(base, path, interface, method)
  /\ last_build' = <<built>>
  /\ IF built.tag = "Panic" THEN
       /\ pc' = "panicked"
       /\ UNCHANGED <<retries, result, log, in_flight, attempts, sent_timeouts>>
     ELSE IF built.tag = "Err" THEN
       /\ Continue(BuildFailure(built.details), log)
       /\ UNCHANGED <<in_flight, attempts, sent_timeouts>>
     ELSE IF TimeoutPanics(method_timeout, overflow_checks) THEN
       /\ pc' = "panicked"
       /\ UNCHANGED <<retries, result, log, in_flight, attempts, sent_timeouts>>
     ELSE
       LET ms == TimeoutMs(method_timeout) IN
       /\ in_flight' = <<BuildMessage(base, path, interface, method, args, ms)>>
       /\ attempts' = attempts + 1
       /\ sent_timeouts' = sent_timeouts \cup {ms}
       /\ pc' = "sending"
       /\ UNCHANGED <<retries, result, log>>
  /\ UNCHANGED <<cfg, peer, target, pauses, elapsed, slept, nfail, last_res, ncalls>>

\* send_with_reply_and_block returns res, at once or when the timeout it
\* was given has run out (full), and send_message_checked classifies it
send_returns(res, full) ==
  /\ pc = "sending"
  /\ in_flight' = <<>>
  /\ elapsed' = elapsed + (IF full THEN MaxBlockSecs(in_flight[1].timeout) ELSE 0)
  /\ last_res' = <<res>>
  /\ nfail' = IF ~res.ok /\ InRetrySet(res.err) THEN nfail + 1 ELSE nfail
  /\ LET r == send_message_checked(method_retry_error_names, res) IN
       \* "Should retry D-Bus method call" is logged when None is returned
       Continue(r, IF r.tag = "None" THEN LogDebug(log) ELSE log)
  /\ UNCHANGED <<cfg, peer, target, attempts, pauses, slept, sent_timeouts, ncalls,
                 last_build>>

\* thread::sleep(Duration::from_secs(1)), then back to the top of the loop
sleep ==
  /\ pc = "sleep"
  /\ pauses' = pauses + 1
  /\ elapsed' = elapsed + BackoffSecs
  /\ slept' = slept + BackoffSecs
  /\ pc' = "loop"
  /\ UNCHANGED <<cfg, peer, target, retries, result, in_flight, log, attempts,
                 nfail, last_res, sent_timeouts, ncalls, last_build>>

(* ------------------------------------------------------------------ *)
(* property<T>                                                          *)
(* ------------------------------------------------------------------ *)
\* property is entered: with_path converts the path and computes the
\* timeout, then Properties.Get is handed to the transport and blocks
property(p, i, n, T) ==
  /\ pc \in {"idle", "done"}
  /\ ncalls < MaxCalls
  /\ ncalls' = ncalls + 1
  /\ op' = "property"
  /\ path' = p /\ interface' = i /\ name' = n /\ want' = T
  /\ method' = "" /\ args' = <<>>
  /\ retries' = 0
  /\ result' = NoResult
  /\ log' = EmptyLog
  /\ pauses' = 0 /\ elapsed' = 0 /\ slept' = 0 /\ nfail' = 0
  /\ last_res' = <<>>
  /\ last_build' = <<>>
  /\ IF PathFromPanics(p) \/ TimeoutPanics(method_timeout, overflow_checks)
       THEN /\ pc' = "panicked"
            /\ attempts' = 0
            /\ UNCHANGED <<in_flight, sent_timeouts>>
       ELSE LET ms == TimeoutMs(method_timeout) IN
            /\ attempts' = 1
            /\ in_flight' =
                 <<BuildMessage(base, p, "org.freedesktop.DBus.Properties",
                                "Get", <<i, n>>, ms)>>
            /\ sent_timeouts' = sent_timeouts \cup {ms}
            /\ pc' = "reading"
  /\ UNCHANGED <<cfg, peer>>

\* the read returns res: coerce the variant to T, or format the failure
property_returns(res, full) ==
  /\ pc = "reading"
  /\ elapsed' = elapsed + (IF full THEN MaxBlockSecs(in_flight[1].timeout) ELSE 0)
  /\ last_res' = <<res>>
  /\ IF res.ok THEN
       LET data == variant_to(want, res.variant) IN
       /\ IF data # <<>> THEN
            /\ result' = OkVal(data[1])
            /\ log' = log
          ELSE
            LET message ==
                  format_property_error(interface, name, path, "wrong property type")
            IN /\ result' = Err(message)
               /\ log' = LogError(log, message)
       /\ pc' = "done"
       /\ in_flight' = <<>>
       /\ attempts' = attempts
     ELSE IF property_retries(method_retry_error_names, res.err) THEN
       \* not in the code: the read would be issued again
       /\ pc' = "reading"
       /\ attempts' = attempts + 1
       /\ UNCHANGED <<result, log, in_flight>>
     ELSE
       LET details == property_details(res.err)
           message == format_property_error(interface, name, path, details)
       IN /\ result' = Err(message)
          /\ log' = LogWarn(log, message)
          /\ pc' = "done"
          /\ in_flight' = <<>>
          /\ attempts' = attempts
  /\ UNCHANGED <<cfg, peer, target, retries, pauses, slept, nfail, sent_timeouts,
                 ncalls, last_build>>

Next ==
  \/ \E t \in Targets : call(t)
  \/ \E t \in Targets, a \in ArgLists : call_with_args(t, a)
  \/ \E built \in BuildOutcomes : create_and_send_message(built)
  \/ \E res \in TransportResults, full \in BOOLEAN : send_returns(res, full)
  \/ sleep
  \/ \E p \in PropertyPaths, i \in {GoodInterface}, n \in PropertyNames,
        T \in TargetTypes : property(p, i, n, T)
  \/ \E res \in PropertyResults, full \in BOOLEAN : property_returns(res, full)

Spec == Init /\ [][Next]_vars

(* ------------------------------------------------------------------ *)
(* two threads calling through one dispatcher                           *)
(* ------------------------------------------------------------------ *)
\* call_with_args entered by the other thread
peer_call_with_args(t, a) ==
  /\ peer.pc \in {"idle", "done"}
  /\ peer.ncalls < MaxCalls
  /\ peer' = [PeerIdle EXCEPT !.pc = "loop",
                              !.path = t[1], !.interface = t[2],
                              !.method = t[3], !.args = a,
                              !.retries = InitialRetries,
                              !.ncalls = peer.ncalls + 1]
  /\ UNCHANGED <<cfg, target, caller, sent_timeouts>>

\* Continue for the other thread: its locals p after the rest of the
\* iteration once create_and_send_message has returned r
PeerContinue(p, r, l) ==
  IF r.tag = "Ok" THEN
    [p EXCEPT !.result = r, !.pc = "done", !.log = l]
  ELSE IF r.tag = "Err" THEN
    LET message == format_call_error(p.interface, p.method, p.path, r.err) IN
    [p EXCEPT !.result = Err(message), !.pc = "done",
              !.log = LogError(l, message)]
  ELSE
    LET n == NextRetries(p.retries) IN
    IF RetriesExhausted(n)
      THEN LET message ==
                 format_call_error(p.interface, p.method, p.path,
                                   ExhaustedMessage)
           IN [p EXCEPT !.retries = n, !.result = Err(message),
                        !.pc = "done", !.log = LogError(l, message)]
      ELSE [p EXCEPT !.retries = n, !.pc = "sleep", !.log = LogDebug(l)]

\* create_and_send_message run by the other thread
peer_create_and_send_message(built) ==
  /\ peer.pc = "loop"
  /\ built \in new_method_call(base, peer.path, peer.interface, peer.method)
  /\ IF built.tag = "Panic" THEN
       /\ peer' = [peer EXCEPT !.pc = "panicked"]
       /\ UNCHANGED sent_timeouts
     ELSE IF built.tag = "Err" THEN
       /\ peer' = PeerContinue(peer, BuildFailure(built.details), peer.log)
       /\ UNCHANGED sent_timeouts
     ELSE IF TimeoutPanics(method_timeout, overflow_checks) THEN
       /\ peer' = [peer EXCEPT !.pc = "panicked"]
       /\ UNCHANGED sent_timeouts
     ELSE
       LET ms == TimeoutMs(method_timeout) IN
       /\ peer' = [peer EXCEPT
                     !.in_flight = <<BuildMessage(base, peer.path,
                                       peer.interface, peer.method,
                                       peer.args, ms)>>,
                     !.attempts = @ + 1,
                     !.pc = "sending"]
       /\ sent_timeouts' = sent_timeouts \cup {ms}
  /\ UNCHANGED <<cfg, target, caller>>

\* the blocking send of the other thread returns res
peer_send_returns(res) ==
  /\ peer.pc = "sending"
  /\ LET r == send_message_checked(method_retry_error_names, res)
         p == [peer EXCEPT
                 !.in_flight = <<>>,
                 !.last_res = <<res>>,
                 !.nfail = IF ~res.ok /\ InRetrySet(res.err) THEN @ + 1 ELSE @]
     IN peer' = PeerContinue(p, r, IF r.tag = "None" THEN LogDebug(peer.log)
                                                      ELSE peer.log)
  /\ UNCHANGED <<cfg, target, caller, sent_timeouts>>

\* the one-second sleep of the other thread
peer_sleep ==
  /\ peer.pc = "sleep"
  /\ peer' = [peer EXCEPT !.pauses = @ + 1, !.pc = "loop"]
  /\ UNCHANGED <<cfg, target, caller, sent_timeouts>>

\* the targets and transport results of the two-thread runs: a good and a
\* malformed target; a reply, a failure with a retry name, one with
\* another name and one with none
MTTargets ==
  { <<GoodPath, GoodInterface, GoodMethod>> }
  \cup { <<p, GoodInterface, GoodMethod>> : p \in MalformedPaths }
MTResults ==
  { [ok |-> TRUE, reply |-> "reply1", err |-> NoError] }
  \cup { [ok |-> FALSE, reply |-> "", err |-> [name |-> n, message |-> <<>>]] :
           n \in {<<>>, <<NoReplyName>>, <<AccessDeniedName>>} }

\* a dispatcher with the default timeout shared by two threads
InitMT ==
  /\ Init
  /\ method_timeout = DEFAULT_TIMEOUT
  /\ ~overflow_checks

NextMT ==
  \/ \E t \in MTTargets : call(t)
  \/ \E built \in BuildOutcomes : create_and_send_message(built)
  \/ \E res \in MTResults : send_returns(res, FALSE)
  \/ sleep
  \/ \E t \in MTTargets : peer_call_with_args(t, <<>>)
  \/ \E built \in BuildOutcomes : peer_create_and_send_message(built)
  \/ \E res \in MTResults : peer_send_returns(res)
  \/ peer_sleep

SpecMT == InitMT /\ [][NextMT]_vars

TypeOK ==
  /\ pc \in {"idle", "loop", "sending", "sleep", "reading", "done", "panicked"}
  /\ retries \in 0..RETRIES_ALLOWED
  /\ peer.pc \in {"idle", "loop", "sending", "sleep", "done", "panicked"}
  /\ peer.retries \in 0..RETRIES_ALLOWED

(* ------------------------------------------------------------------ *)
(* Properties                                                           *)
(* ------------------------------------------------------------------ *)
Range(f) == { f[k] : k \in DOMAIN f }

InCall == op = "call"
LastFailed == last_res # <<>> /\ ~last_res[1].ok
LastReplied == last_res # <<>> /\ last_res[1].ok
\* the call is on its way to another send attempt
Retried == pc \in {"sleep", "loop", "sending"}
\* the last message build of the call returned Err
BuildFailed == last_build # <<>> /\ last_build[1].tag = "Err"
\* the cause part of a message made by call_with_args
Cause(message) == SubSeq(message, 8, Len(message))
ExhaustedText == <<"method call failed after ", "10", " retries">>

\* C1: during a call the retry counter stays within 0..10, and when it is
\* 10 the call has returned the failure "method call failed after 10
\* retries" and nothing is on the bus.
C1_RetryCounterBounded ==
  InCall =>
    /\ retries \in 0..10
    /\ retries = 10 =>
         /\ pc = "done"
         /\ in_flight = <<>>
         /\ attempts <= 10
         /\ result.tag = "Err"
         /\ Cause(result.err) = ExhaustedText

C1_Witness == InCall /\ retries = 10 /\ pc = "done" /\ attempts = 10

\* C2 (as stated): after a failed send the call goes on to another attempt
\* exactly when the error's name is in the retry set, and otherwise has
\* ended with an error.
C2_RetryIffNameInSet ==
  (InCall /\ LastFailed /\ pc # "sending") =>
    /\ Retried <=> InRetrySet(last_res[1].err)
    /\ ~InRetrySet(last_res[1].err) => (pc = "done" /\ result.tag = "Err")

\* C2 (amended): after a failed send the call goes on to another
\* iteration, which sends again unless its message build returns Err,
\* exactly when the error's name is in the retry set and that send was not
\* the 10th of the call; in every other case, and when the build of the
\* retry returned Err, the call has ended with an error.
C2_RetryIffNameInSetBelowLimit ==
  (InCall /\ LastFailed /\ pc # "sending") =>
    /\ (Retried \/ BuildFailed) <=> (InRetrySet(last_res[1].err) /\ attempts < 10)
    /\ ~Retried => (pc = "done" /\ result.tag = "Err")
    /\ BuildFailed =>
         /\ attempts = nfail
         /\ Cause(result.err) = last_build[1].details

C2_Witness ==
  /\ InCall /\ LastFailed /\ pc = "sleep"
  /\ Len(method_retry_error_names) = 2
  /\ last_res[1].err.name = <<method_retry_error_names[2]>>

\* C3 (as stated): the counter equals the number of sends that failed with a retry
\* name, each such failure is followed by exactly one more send, a call
\* makes at most 10 sends, and a call whose every send failed with a retry
\* name has made 10 sends and returned the retries-exhausted error.
C3_OneRetryPerOccurrence ==
  InCall =>
    /\ attempts <= 10
    /\ retries = nfail
    /\ pc = "sending" => attempts = nfail + 1
    /\ pc \in {"sleep", "loop"} => attempts = nfail
    /\ pc = "done" => attempts \in {nfail, nfail + 1}
    /\ (pc = "done" /\ attempts >= 1 /\ attempts = nfail) =>
         /\ attempts = 10
         /\ result.tag = "Err"
         /\ Cause(result.err) = ExhaustedText

\* C3 (amended): the counter equals the number of sends that failed with a
\* retry name, each such failure is followed by exactly one more
\* iteration, which sends unless its message build returns Err, a call
\* makes at most 10 sends, and a call whose every send failed with a retry
\* name and whose every build succeeded has made 10 sends and returned
\* the retries-exhausted error; one whose last build returned Err has
\* returned that error after fewer than 10 sends.
C3_OneRetryPerOccurrenceWhileBuilt ==
  InCall =>
    /\ attempts <= 10
    /\ retries = nfail
    /\ pc = "sending" => attempts = nfail + 1
    /\ pc \in {"sleep", "loop"} => attempts = nfail
    /\ pc = "done" => attempts \in {nfail, nfail + 1}
    /\ (pc = "done" /\ attempts = nfail /\ ~BuildFailed) =>
         /\ attempts = 10
         /\ result.tag = "Err"
         /\ Cause(result.err) = ExhaustedText
    /\ BuildFailed =>
         /\ pc = "done"
         /\ attempts = nfail /\ attempts < 10
         /\ result.tag = "Err"
         /\ Cause(result.err) = last_build[1].details

C3_Witness ==
  /\ InCall /\ pc = "done" /\ nfail = 10 /\ attempts = 10
  /\ result.tag = "Err" /\ Cause(result.err) = ExhaustedText

\* C4: once a send has failed with a name outside the retry set the call
\* has ended: nothing is on the bus, no send and no pause came after that
\* failure, and the error returned contains the interface, the method, the
\* path and the cause (the error's detail, or "Undefined error message").
C4_NonRetryNameIsTerminal ==
  (InCall /\ LastFailed /\ ~InRetrySet(last_res[1].err)) =>
    /\ pc = "done"
    /\ in_flight = <<>>
    /\ attempts = nfail + 1
    /\ pauses = nfail
    /\ result.tag = "Err"
    /\ {interface, method, path} \subseteq Range(result.err)
    /\ IF last_res[1].err.message # <<>>
         THEN Cause(result.err) = last_res[1].err.message
         ELSE Cause(result.err) = <<"Undefined error message">>

C4_Witness ==
  /\ InCall /\ LastFailed /\ ~InRetrySet(last_res[1].err)
  /\ last_res[1].err.name # <<>>
  /\ nfail >= 2 /\ pc = "done"

\* C5: once a send has succeeded, on attempt k after k-1 failures with a
\* retry name, the call has returned Ok with exactly the reply of that
\* send, and no send and no pause came after it.
C5_SuccessReturnsReply ==
  (InCall /\ LastReplied) =>
    /\ pc = "done"
    /\ in_flight = <<>>
    /\ result.tag = "Ok"
    /\ result.reply = last_res[1].reply
    /\ attempts \in 1..10
    /\ attempts = nfail + 1
    /\ pauses = nfail

C5_Witness ==
  /\ InCall /\ LastReplied /\ attempts = 10 /\ nfail = 9
  /\ result.tag = "Ok" /\ result.reply = "reply2"

\* C6: a call that returned success after n failures with a retry name
\* has n < 10, made n retries and n pauses of one second each; and every
\* pause lies between two sends: a pause follows a send, and after a pause
\* the next step of the call is a send.
C6_PausesBetweenAttempts ==
  InCall =>
    /\ (pc = "done" /\ result.tag = "Ok") =>
         /\ nfail < 10
         /\ retries = nfail
         /\ pauses = nfail
         /\ slept = nfail * 1
         /\ attempts = nfail + 1
    /\ pc = "sleep" => attempts = pauses + 1
    /\ pc = "sending" => attempts = pauses + 1
    /\ (pc = "loop" /\ pauses > 0) =>
         /\ attempts = pauses
         /\ ~MalformedTarget(path, interface, method)
         /\ ~TimeoutPanics(method_timeout, overflow_checks)

C6_Witness ==
  /\ InCall /\ pc = "done" /\ result.tag = "Ok"
  /\ method_retry_error_names = <<NoReplyName>>
  /\ method_timeout = 15
  /\ path = "/test" /\ interface = "org.example.Iface" /\ method = "Ping"
  /\ nfail = 2 /\ retries = 2 /\ pauses = 2 /\ slept = 2 /\ attempts = 3

\* C7: once a message build has returned Err, on whichever iteration of
\* the loop, the call has returned that error: the iteration sent nothing
\* (every send of the call is one of the earlier failures with a retry
\* name), the retry counter was not incremented (it counts those failures
\* only) and no pause followed (one pause per earlier failure).
C7_BuildFailureIsTerminal ==
  (InCall /\ BuildFailed) =>
    /\ pc = "done"
    /\ result.tag = "Err"
    /\ Cause(result.err) = last_build[1].details
    /\ in_flight = <<>>
    /\ attempts = nfail
    /\ retries = nfail
    /\ pauses = nfail
    /\ slept = nfail * BackoffSecs
    /\ nfail < RETRIES_ALLOWED

\* the build of the third iteration returned Err after two failed sends
C7_Witness ==
  /\ InCall /\ BuildFailed /\ pc = "done" /\ result.tag = "Err"
  /\ nfail = 2 /\ attempts = 2 /\ retries = 2 /\ pauses = 2

\* C8: a call that is no longer running has ended in one of the three
\* outcomes: success, terminal failure, or retries exhausted.
Running == pc \in {"loop", "sending", "sleep"}
Outcome ==
  IF pc = "done" /\ result.tag = "Ok" THEN "success"
  ELSE IF pc = "done" /\ result.tag = "Err" /\ Cause(result.err) = ExhaustedText
    THEN "exhausted"
  ELSE IF pc = "done" /\ result.tag = "Err" THEN "terminal"
  ELSE "none"

C8_RunsToCompletion ==
  (InCall /\ ~Running) => Outcome \in {"success", "terminal", "exhausted"}

\* C9: the seconds a call has spent blocked in sends and asleep never
\* exceed (method_timeout + 1) * 10.
C9_LatencyBounded ==
  InCall => elapsed <= (method_timeout + 1) * 10

C9_Witness ==
  /\ InCall /\ pc = "done" /\ method_timeout = 15
  /\ attempts = 10 /\ elapsed = 15 * 10 + 9

\* C10: every timeout handed to the transport, by any send of any call and
\* by any property read, is method_timeout * 1000 milliseconds, and the
\* dispatcher never hands out two different timeouts.
C10_TimeoutIsSecondsTimes1000 ==
  /\ Cardinality(sent_timeouts) <= 1
  /\ \A ms \in sent_timeouts :
       ms % 1000 = 0 /\ ms \div 1000 = method_timeout
  /\ in_flight # <<>> => in_flight[1].timeout \in sent_timeouts

InProperty == op = "property"

\* C11: no call and no property read panics: an operation that has
\* stopped has returned a value to its caller, Ok or Err.
C11_FailuresAreReturned ==
  (InCall \/ InProperty) =>
    /\ pc # "panicked"
    /\ pc = "done" => result.tag \in {"Ok", "Err"}

\* the wire value has the shape the target type T asks for
Coercible(T, v) ==
  CASE T = "String" -> v.kind = "str"
    [] T \in {"i64", "u32", "bool"} -> v.kind = "int"
    [] T = "Vec<String>" ->
         v.kind = "array" /\ \A k \in DOMAIN v.elems : v.elems[k].kind = "str"
    [] T = "Vec<u8>" ->
         v.kind = "array" /\ \A k \in DOMAIN v.elems : v.elems[k].kind = "int"

\* C12: a property read that returned has logged at error severity exactly
\* when the read succeeded and the value does not coerce to T, and at
\* warning severity exactly when the read failed; the message logged is
\* the one returned, it holds interface, property name and path, and ends
\* with "wrong property type", the remote detail, or "no details".
C12_PropertyFailureSeverity ==
  (InProperty /\ pc = "done") =>
    LET res == last_res[1] IN
    /\ (log.error # <<>>) <=> (res.ok /\ ~Coercible(want, res.variant))
    /\ (log.warn # <<>>) <=> ~res.ok
    /\ (result.tag = "Err") <=> (log.error # <<>> \/ log.warn # <<>>)
    /\ log.debug = 0
    /\ log.error # <<>> =>
         /\ log.error = <<result.err>>
         /\ result.err[8] = "wrong property type"
    /\ log.warn # <<>> =>
         /\ log.warn = <<result.err>>
         /\ result.err[8] = (IF res.err.message # <<>> THEN res.err.message[1]
                                                      ELSE "no details")
    /\ result.tag = "Err" =>
         /\ Len(result.err) = 8
         /\ {interface, name, path} \subseteq Range(result.err)

C12_Witness ==
  /\ InProperty /\ pc = "done" /\ ~last_res[1].ok
  /\ last_res[1].err.message = <<"Connection timed out">>
  /\ log.warn = <<result.err>> /\ result.err[8] = "Connection timed out"

\* a property read returned a wire value
ReadReturned == InProperty /\ pc = "done" /\ last_res[1].ok

\* C13: coercing to a list of strings or of bytes gives either one decoded
\* element per input element, in the input's order, or nothing at all:
\* nothing when the value is not an array or any element has the wrong
\* shape, whatever the elements before it.
C13_SequenceAllOrNothing ==
  (ReadReturned /\ want \in {"Vec<String>", "Vec<u8>"}) =>
    LET v == last_res[1].variant
        es == v.elems
    IN  IF Coercible(want, v)
          THEN /\ result.tag = "Ok"
               /\ IF want = "Vec<String>"
                    THEN /\ Len(result.val.strs) = Len(es)
                         /\ \A k \in DOMAIN es : result.val.strs[k] = es[k].s
                    ELSE /\ Len(result.val.ints) = Len(es)
                         /\ \A k \in DOMAIN es :
                              result.val.ints[k] = es[k].i.w % 256
          ELSE /\ result.tag = "Err"
               /\ result.val = NoVal

C13_Witness ==
  /\ ReadReturned /\ want = "Vec<String>"
  /\ last_res[1].variant.kind = "array"
  /\ Len(last_res[1].variant.elems) = 3
  /\ last_res[1].variant.elems[1].kind = "str"
  /\ last_res[1].variant.elems[2].kind = "str"
  /\ last_res[1].variant.elems[3].kind = "int"
  /\ result.tag = "Err"

\* C14: coercing an integer v to bool gives true exactly when v is 0 (7
\* gives false, 0 gives true); a value that is not an integer gives
\* nothing.
C14_BoolIsZeroTest ==
  (ReadReturned /\ want = "bool") =>
    LET v == last_res[1].variant IN
    IF v.kind = "int"
      THEN /\ result.tag = "Ok"
           /\ result.val.b = (v.i = I64Of(0))
      ELSE result.tag = "Err"

C14_Witness ==
  /\ ReadReturned /\ want = "bool"
  /\ last_res[1].variant = IntV(I64Of(7))
  /\ result.tag = "Ok" /\ result.val.b = FALSE

\* C20: coercing an integer v to u32 always gives a value, the one whose
\* 32 bits are the low 32 bits of v (v mod 2^32), also for negative v and
\* for v above 2^32 - 1; each element e of a byte list gives the byte
\* congruent to e mod 2^8; nothing is given only when the value (or an
\* element) is not an integer.
C20_NarrowingWraps ==
  /\ (ReadReturned /\ want = "u32") =>
       LET v == last_res[1].variant IN
       IF v.kind = "int"
         THEN /\ result.tag = "Ok"
              /\ Len(result.val.u) = 2
              /\ \A k \in 1..2 : result.val.u[k] \in 0..65535
              /\ FromLimbs(result.val.u[1], result.val.u[2]) = v.i.w
         ELSE result.tag = "Err"
  /\ (ReadReturned /\ want = "Vec<u8>") =>
       LET v == last_res[1].variant IN
       IF v.kind = "array" /\ \A k \in DOMAIN v.elems : v.elems[k].kind = "int"
         THEN /\ result.tag = "Ok"
              /\ \A k \in DOMAIN v.elems :
                   /\ result.val.ints[k] \in 0..255
                   /\ (v.elems[k].i.w - result.val.ints[k]) % 256 = 0
         ELSE result.tag = "Err"

C20_Witness ==
  /\ ReadReturned /\ want = "u32"
  /\ last_res[1].variant = IntV(I64(1, 5))
  /\ result.tag = "Ok" /\ result.val.u = <<5, 0>>

\* the number of diagnostics a call has emitted at debug severity when
\* every failure with a retry name logs one and every retry logs one
RetryDiagnostics == nfail + (IF pc = "sleep" THEN pauses + 1 ELSE pauses)

\* C15: a call has returned Err(m) exactly when it has emitted one entry
\* at error severity, whose text is m; a successful call has emitted none;
\* every failure with a retry name has emitted a diagnostic; and what a
\* call returns is fixed by its target and by what the transport returned
\* (the build result, the last transport result and the number of
\* failures with a retry name), the log playing no part.
C15_DiagnosticsMatchResult ==
  InCall =>
    /\ (pc = "done" /\ result.tag = "Err") <=> (log.error # <<>>)
    /\ log.error # <<>> => log.error = <<result.err>>
    /\ log.warn = <<>>
    /\ log.debug >= nfail
    /\ log.debug = RetryDiagnostics
    /\ pc = "done" =>
         IF BuildFailed
           THEN result.tag = "Err" /\ Cause(result.err) = last_build[1].details
         ELSE IF LastReplied
           THEN result.tag = "Ok" /\ result.reply = last_res[1].reply
         ELSE IF InRetrySet(last_res[1].err)
           THEN result.tag = "Err" /\ Cause(result.err) = ExhaustedText
         ELSE /\ result.tag = "Err"
              /\ Cause(result.err) \in
                   { last_res[1].err.message, <<"Undefined error message">> }

C15_Witness ==
  /\ InCall /\ pc = "done" /\ result.tag = "Err"
  /\ log.error = <<result.err>>
  /\ nfail = 3 /\ log.debug = 6

\* C17: a property read that failed has ended: one read was handed to the
\* transport, none is pending, there was no pause and no retry, whatever
\* the error's name.
C17_PropertyReadNotRetried ==
  (InProperty /\ LastFailed) =>
    /\ pc = "done"
    /\ attempts = 1
    /\ in_flight = <<>>
    /\ pauses = 0 /\ slept = 0
    /\ retries = 0
    /\ result.tag = "Err"

C17_Witness ==
  /\ InProperty /\ LastFailed /\ InRetrySet(last_res[1].err)
  /\ pc = "done" /\ attempts = 1 /\ result.tag = "Err"

\* C18 (as stated): a completed call has made one pause less than it made
\* send attempts.
C18_PausesAreAttemptsMinusOne ==
  (InCall /\ pc = "done") => pauses = attempts - 1

\* C18 (amended): a completed call that ended with the result of a send
\* has made one pause less than send attempts; one that ended because a
\* message build returned Err has made as many pauses as send attempts
\* (none of either when it was the first build); no pause comes before the
\* first attempt and each follows a send attempt; a call that exhausted its
\* retries made 10 attempts and 9 pauses.
C18_PausesAreAttemptsMinusOneUnlessBuildFailed ==
  InCall =>
    /\ attempts = 0 => pauses = 0
    /\ pauses <= attempts
    /\ (pc = "done" /\ ~BuildFailed) => pauses = attempts - 1
    /\ (pc = "done" /\ BuildFailed) => pauses = attempts
    /\ (pc = "done" /\ result.tag = "Err" /\ Cause(result.err) = ExhaustedText) =>
         (attempts = 10 /\ pauses = 9)

C18_Witness ==
  /\ InCall /\ pc = "done" /\ result.tag = "Err"
  /\ Cause(result.err) = ExhaustedText
  /\ attempts = 10 /\ pauses = 9

\* C19: once a send has failed with an error that has no name the call has
\* ended at that attempt, whatever the retry names, and the cause in the
\* error returned is the error's detail, or "Undefined error message" when
\* it has none.
C19_UnnamedErrorIsTerminal ==
  (InCall /\ LastFailed /\ last_res[1].err.name = <<>>) =>
    /\ pc = "done"
    /\ in_flight = <<>>
    /\ attempts = nfail + 1
    /\ result.tag = "Err"
    /\ Len(result.err) = 8
    /\ result.err[8] = (IF last_res[1].err.message # <<>>
                          THEN last_res[1].err.message[1]
                          ELSE "Undefined error message")

C19_Witness ==
  /\ InCall /\ LastFailed /\ last_res[1].err = NoError
  /\ Len(method_retry_error_names) = 2 /\ nfail >= 1
  /\ pc = "done" /\ result.err[8] = "Undefined error message"

\* the other thread's call ended because its retries ran out
PeerExhausted ==
  /\ peer.pc = "done" /\ peer.result.tag = "Err"
  /\ Cause(peer.result.err) = ExhaustedText

\* C16: in every interleaving of two threads' calls on one dispatcher each
\* invocation's counter starts at 0 and counts that invocation's failures
\* with a retry name only, so each invocation makes up to 10 send attempts
\* and only ends for lack of retries after 10 attempts of its own,
\* whatever earlier calls or the other thread's call did.
C16_RetriesScopedToInvocation ==
  /\ InCall =>
       /\ attempts = 0 => retries = 0
       /\ retries = nfail
       /\ attempts <= RETRIES_ALLOWED
       /\ (pc = "done" /\ result.tag = "Err"
             /\ Cause(result.err) = ExhaustedText) => attempts = RETRIES_ALLOWED
  /\ peer.pc # "idle" =>
       /\ peer.attempts = 0 => peer.retries = 0
       /\ peer.retries = peer.nfail
       /\ peer.attempts <= RETRIES_ALLOWED
       /\ PeerExhausted => peer.attempts = RETRIES_ALLOWED

\* a second call of one thread runs out of retries after 10 attempts of
\* its own while the other thread's call has failed 4 times and goes on
C16_Witness ==
  /\ InCall /\ ncalls = 2 /\ pc = "done" /\ result.tag = "Err"
  /\ Cause(result.err) = ExhaustedText /\ attempts = 10
  /\ peer.pc = "sleep" /\ peer.retries = 4 /\ peer.attempts = 4
====
